---- MODULE Spec2Model ----
(***************************************************************************)
(* A model of tiny_performance_counter.h: the session singleton            *)
(* (gPerformanceCounter), SimplePerfCounter::Initialize and its            *)
(* destructor, the sampling worker thread and the public accessors.        *)
(*                                                                         *)
(* Conventions.                                                            *)
(*  - A double is an exact rational <<numerator, denominator>> in lowest   *)
(*    terms with a positive denominator.                                   *)
(*  - A std::wstring is a sequence of one-character strings; positions are *)
(*    0-based as in the source and NPOS stands for std::wstring::npos.     *)
(*  - A counter path is the sequence of its backslash-separated            *)
(*    components: "\Process(app)\ID Process" is                            *)
(*    <<"Process(app)", "ID Process">>, the empty string is << >>.         *)
(*  - The counter subsystem (PDH) is the environment: what it returns is   *)
(*    drawn from small sets of samples.                                    *)
(*  - A 32-bit unsigned value (DWORD, the target of %u) is the pair        *)
(*    <<high 16 bits, low 16 bits>>.                                       *)
(*  - Undefined behaviour is a choice among its outcomes: the value of an  *)
(*    operation is a record [ub, v] whose ub tells that it is undefined,   *)
(*    and a fault or an uncaught exception ends the process (the worker    *)
(*    position "terminated", after which no thread takes a step).          *)
(***************************************************************************)
EXTENDS Integers, Sequences, FiniteSets, TLC

(***************************************************************************)
(* Bounds of the model.                                                    *)
(***************************************************************************)
\* collection attempts (PdhCollectQueryData calls) of the worker, in total
MaxTicks == 2
\* Initialize / Shutdown calls of the controlling thread, in total
MaxCalls == 3
\* counters whose registration may fail in one Initialize
MaxRegFailures == 1

(***************************************************************************)
(* Doubles as exact rationals.                                             *)
(***************************************************************************)
Abs(i) == IF i < 0 THEN 0 - i ELSE i

RECURSIVE GCD(_, _)
GCD(a, b) == IF b = 0 THEN a ELSE GCD(b, a % b)

Norm(n, d) ==
  LET g == GCD(Abs(n), d)
  IN  IF n = 0 THEN <<0, 1>> ELSE <<n \div g, d \div g>>

D(i) == <<i, 1>>
DAdd(x, y) == Norm(x[1] * y[2] + y[1] * x[2], x[2] * y[2])
DDivInt(x, k) == Norm(x[1], x[2] * k)
DHalf(x) == Norm(x[1], x[2] * 2)
DLeq(x, y) == x[1] * y[2] <= y[1] * x[2]
DMin(x, y) == IF DLeq(y, x) THEN y ELSE x

\* the sum of the first n elements of s, added from the first one on
RECURSIVE DSumTo(_, _)
DSumTo(s, n) == IF n = 0 THEN D(0) ELSE DAdd(DSumTo(s, n - 1), s[n])

DSum(s) == DSumTo(s, Len(s))

(***************************************************************************)
(* std::wstring helpers.                                                   *)
(***************************************************************************)
\* std::wstring::npos (the value find returns when there is no match)
NPOS == -1

DigitChars == <<"0", "1", "2", "3", "4", "5", "6", "7", "8", "9">>
IsDigit(c) == \E i \in 1..10 : DigitChars[i] = c
DigitValue(c) == (CHOOSE i \in 1..10 : DigitChars[i] = c) - 1

\* a value a piece of code produced; ub marks one produced in undefined
\* behaviour (an iterator past the end, a data race, a destroyed object):
\* it may be anything, or the program may not go on at all
Returned(v) == [ub |-> FALSE, v |-> v]
Undefined(v) == [ub |-> TRUE, v |-> v]

(***************************************************************************)
(* 32-bit unsigned integers (DWORD, uint32_t, unsigned int) as the pair    *)
(* <<high, low>> of their 16-bit halves, with arithmetic modulo 2^32.      *)
(***************************************************************************)
TwoTo16 == 65536
\* the 32-bit unsigned integer of a natural number below 2^31
U32(n) == <<n \div TwoTo16, n % TwoTo16>>
\* 0xFFFFFFFFu
UINT32_MAX == <<TwoTo16 - 1, TwoTo16 - 1>>
\* 0 - u
U32Negate(u) ==
  <<(TwoTo16 - u[1] - (IF u[2] = 0 THEN 0 ELSE 1)) % TwoTo16,
    (TwoTo16 - u[2]) % TwoTo16>>
\* u / 10 and u % 10
U32DivTen(u) == <<u[1] \div 10, ((u[1] % 10) * TwoTo16 + u[2]) \div 10>>
U32ModTen(u) == ((u[1] % 10) * TwoTo16 + u[2]) % 10
\* u < n for a size n (a natural number below 2^31)
U32Less(u, n) ==
  \/ u[1] < n \div TwoTo16
  \/ u[1] = n \div TwoTo16 /\ u[2] < n % TwoTo16

\* 64-bit unsigned integers (uint64_t, unsigned long) as their four 16-bit
\* parts, the most significant first, with arithmetic modulo 2^64
\* the 64-bit unsigned integer of a natural number below 2^31
U64(n) == <<0, 0, n \div TwoTo16, n % TwoTo16>>
\* a + b
U64Add(a, b) ==
  LET s4 == a[4] + b[4]
      s3 == a[3] + b[3] + s4 \div TwoTo16
      s2 == a[2] + b[2] + s3 \div TwoTo16
      s1 == a[1] + b[1] + s2 \div TwoTo16
  IN  <<s1 % TwoTo16, s2 % TwoTo16, s3 % TwoTo16, s4 % TwoTo16>>
\* 0 - u
U64Negate(u) ==
  U64Add(<<TwoTo16 - 1 - u[1], TwoTo16 - 1 - u[2], TwoTo16 - 1 - u[3],
           TwoTo16 - 1 - u[4]>>, U64(1))
\* the conversion of a LONGLONG to uint64_t
U64OfLongLong(n) == IF n >= 0 THEN U64(n) ELSE U64Negate(U64(0 - n))
\* u * 10 + d, and whether it exceeds ULONG_MAX
U64TimesTenPlus(u, d) ==
  LET p4 == u[4] * 10 + d
      p3 == u[3] * 10 + p4 \div TwoTo16
      p2 == u[2] * 10 + p3 \div TwoTo16
      p1 == u[1] * 10 + p2 \div TwoTo16
  IN  [value |-> <<p1 % TwoTo16, p2 % TwoTo16, p3 % TwoTo16, p4 % TwoTo16>>,
       overflow |-> p1 >= TwoTo16]

\* std::format(L"{}", n) of an unsigned integer: its decimal digits
RECURSIVE FormatDecimal(_)
FormatDecimal(u) ==
  IF U32Less(u, 10) THEN <<DigitChars[u[2] + 1]>>
  ELSE FormatDecimal(U32DivTen(u)) \o <<DigitChars[U32ModTen(u) + 1]>>

\* hay.find(needle): the 0-based position of the first occurrence, or NPOS
Find(hay, needle) ==
  LET hits == {i \in 0..(Len(hay) - Len(needle)) :
                 SubSeq(hay, i + 1, i + Len(needle)) = needle}
  IN  IF hits = {} THEN NPOS
      ELSE CHOOSE i \in hits : \A j \in hits : i <= j

\* std::wstring(name.begin() + from, name.end()): with from beyond the
\* length the first iterator is past the end, which is undefined
Suffix(s, from) ==
  IF from <= Len(s) THEN Returned(SubSeq(s, from + 1, Len(s)))
  ELSE Undefined(<< >>)

\* the characters the %u conversion of swscanf skips before the number
\* (iswspace): space, \t, \n, vertical tab, \f, \r
WhiteSpace == {" ", "\t", "\n", "", "\f", "\r"}

RECURSIVE SkipWhiteSpace(_)
SkipWhiteSpace(s) ==
  IF s # << >> /\ Head(s) \in WhiteSpace THEN SkipWhiteSpace(Tail(s)) ELSE s

\* the decimal digits at the head of s: their value as an unsigned long
\* from the value u so far, whether it went beyond ULONG_MAX, their number
\* from n, and what follows them
RECURSIVE ScanDigits(_, _, _, _)
ScanDigits(s, u, overflow, n) ==
  IF s # << >> /\ IsDigit(Head(s))
  THEN LET next == U64TimesTenPlus(u, DigitValue(Head(s)))
       IN  ScanDigits(Tail(s), next.value, overflow \/ next.overflow, n + 1)
  ELSE [value |-> u, overflow |-> overflow, count |-> n, rest |-> s]

\* one %u conversion of swscanf: white space is skipped, a sign is
\* accepted, at least one digit is required; the digits are converted as
\* an unsigned long (ULONG_MAX when they are out of its range, otherwise
\* negated after a minus sign) and stored as an unsigned int
ScanUnsigned(s) ==
  LET t == SkipWhiteSpace(s)
      signed == t # << >> /\ Head(t) \in {"+", "-"}
      digits == ScanDigits(IF signed THEN Tail(t) ELSE t, U64(0), FALSE, 0)
      stored == <<digits.value[3], digits.value[4]>>
  IN  [ok |-> digits.count > 0,
       value |-> IF digits.overflow THEN UINT32_MAX
                 ELSE IF signed /\ Head(t) = "-" THEN U32Negate(stored)
                 ELSE stored,
       rest |-> digits.rest]

(***************************************************************************)
(* Counter instance names and counter paths.                               *)
(***************************************************************************)
\* m_selfPidString = std::format(L"pid_{}", m_pid)
SelfPidString(pid) == <<"p", "i", "d", "_">> \o FormatDecimal(pid)

\* keywordEngType = L"_engtype_"
KeywordEngType == <<"_", "e", "n", "g", "t", "y", "p", "e", "_">>

\* a null PDH_HCOUNTER / PDH_HQUERY ({ }), and an open query; the handle
\* of the process counter is the counter path it is bound to
H_NULL == << >>
H_OPEN == <<"query">>

\* ERROR_SUCCESS and any other PDH_STATUS
ERROR_SUCCESS == "ERROR_SUCCESS"
PDH_ERROR == "PDH_ERROR"

\* a PDH_HCOUNTER of a wildcard counter added to m_pdhQuery
H_COUNTER == <<"counter">>

\* desiredInstancePath.substr(0, desiredInstancePath.rfind(L"\\")):
\* the path without its last component; rfind gives npos on the empty
\* string and substr(0, npos) is then the whole (empty) string
DropLeaf(path) == IF path = << >> THEN << >> ELSE SubSeq(path, 1, Len(path) - 1)

\* the "\Process(<instance>)\ID Process" paths PdhExpandWildCardPathW
\* returns for the processes named like this one, in enumeration order
GetProcessPathList(procs) ==
  [i \in 1..Len(procs) |-> <<procs[i].inst, "ID Process">>]

\* PdhGetFormattedCounterValue of an "ID Process" counter added to the side
\* query: the process id of the instance the path names
IdProcessValue(path, procs) ==
  LET hit == {i \in 1..Len(procs) : procs[i].inst = path[1]}
  IN  IF hit = {} THEN [status |-> PDH_ERROR, longValue |-> 0]
      ELSE [status |-> ERROR_SUCCESS,
            longValue |-> procs[CHOOSE i \in hit : \A j \in hit : i <= j].pid]

\* the loop of GetPathMatched: the first path whose "ID Process" value is pid
RECURSIVE FirstPathOfPid(_, _, _)
FirstPathOfPid(pathList, procs, pid) ==
  IF pathList = << >> THEN << >>
  ELSE LET v == IdProcessValue(Head(pathList), procs)
       IN  IF v.status = ERROR_SUCCESS /\ v.longValue = pid
           THEN Head(pathList)
           ELSE FirstPathOfPid(Tail(pathList), procs, pid)

GetPathMatched(pathList, procs, pid) ==
  DropLeaf(FirstPathOfPid(pathList, procs, pid)) \o <<"% Processor Time">>

\* PdhAddCounterW(m_pdhQuery, counterPath, 0, &m_hCpuUsage): the handle is
\* bound to the path when the path names an existing counter
PdhAddProcessCounter(counterPath, procs, regOk) ==
  IF /\ regOk
     /\ Len(counterPath) = 2
     /\ counterPath[2] = "% Processor Time"
     /\ \E i \in 1..Len(procs) : procs[i].inst = counterPath[1]
  THEN counterPath
  ELSE H_NULL

(***************************************************************************)
(* Metric aggregators.                                                     *)
(***************************************************************************)
\* PdhGetFormattedCounterArrayW on a handle: fails on a null handle
ArrayStatus(handle, read) ==
  IF handle # H_NULL /\ read.ok THEN ERROR_SUCCESS ELSE PDH_ERROR

\* name.find(m_selfPidString) == name.npos
NotOwnInstance(name, selfPidString) == Find(name, selfPidString) = NPOS

\* std::wstring(name.begin() + pos + keywordEngType.length(), name.end());
\* when the keyword is absent pos is npos and pos + length wraps to
\* length - 1, which is past the end of a name shorter than that
EngineTypeOf(name) ==
  LET pos == Find(name, KeywordEngType)
  IN  IF pos = NPOS THEN Suffix(name, Len(KeywordEngType) - 1)
      ELSE Suffix(name, pos + Len(KeywordEngType))

\* gpuEngineUtilization[engineType] += value (operator[] inserts 0.0)
AddToEngine(map, engineType, value) ==
  IF engineType \in DOMAIN map
  THEN [map EXCEPT ![engineType] = DAdd(@, value)]
  ELSE [t \in DOMAIN map \cup {engineType} |->
          IF t = engineType THEN value ELSE map[t]]

\* the loop over the items: the map, or undefined at the first own
\* instance whose engine type is
RECURSIVE GpuUtilizationLoop(_, _, _)
GpuUtilizationLoop(items, selfPidString, map) ==
  IF items = << >> THEN Returned(map)
  ELSE LET name == Head(items).szName
           engineType == EngineTypeOf(name)
       IN  IF NotOwnInstance(name, selfPidString)
           THEN GpuUtilizationLoop(Tail(items), selfPidString, map)
           ELSE IF engineType.ub THEN Undefined(map)
           ELSE GpuUtilizationLoop(Tail(items), selfPidString,
                  IF engineType.v # << >>
                  THEN AddToEngine(map, engineType.v, Head(items).value)
                  ELSE map)

EmptyMap == [t \in {} |-> D(0)]

CollectGPUUtilization(handle, read, selfPidString) ==
  IF ArrayStatus(handle, read) = ERROR_SUCCESS
  THEN GpuUtilizationLoop(read.items, selfPidString, EmptyMap)
  ELSE Returned(EmptyMap)

RECURSIVE GpuMemoryLoop(_, _, _)
GpuMemoryLoop(items, selfPidString, amount) ==
  IF items = << >> THEN amount
  ELSE GpuMemoryLoop(Tail(items), selfPidString,
         IF NotOwnInstance(Head(items).szName, selfPidString) THEN amount
         ELSE U64Add(amount, U64OfLongLong(Head(items).value)))

\* a variant of the function below without the test of pdhStatus
CollectGPUMemoryUnchecked(handle, read, selfPidString) ==
  GpuMemoryLoop(read.items, selfPidString, U64(0))

\* CollectGPUMemoryDedicated and CollectGPUMemoryShared (the same code on
\* m_hGpuDedicateMem and on m_hGpuSharedMem)
CollectGPUMemory(handle, read, selfPidString) ==
  IF ArrayStatus(handle, read) = ERROR_SUCCESS
  THEN GpuMemoryLoop(read.items, selfPidString, U64(0))
  ELSE U64(0)

\* ::swscanf_s(name, L"%u,%u", &cpuIndex, &coreIndex) with coreIndex = 0
\* before the call: coreIndex is assigned only when the first conversion,
\* the comma right after it and the second conversion all match
ScanCoreIndex(name) ==
  LET cpu == ScanUnsigned(name)
      core == ScanUnsigned(Tail(cpu.rest))
  IN  IF ~cpu.ok THEN U32(0)
      ELSE IF cpu.rest = << >> \/ Head(cpu.rest) # "," THEN U32(0)
      ELSE IF ~core.ok THEN U32(0)
      ELSE core.value

RECURSIVE CpuCoresLoop(_, _)
CpuCoresLoop(items, cpuCoresUsage) ==
  IF items = << >> THEN cpuCoresUsage
  ELSE LET coreIndex == ScanCoreIndex(Head(items).szName)
       IN  CpuCoresLoop(Tail(items),
             IF U32Less(coreIndex, Len(cpuCoresUsage))
             THEN [cpuCoresUsage EXCEPT
                     ![coreIndex[1] * TwoTo16 + coreIndex[2] + 1] =
                       Head(items).value]
             ELSE cpuCoresUsage)

\* cpuCoresUsage.resize(itemCount)
Resize(vec, n) == [i \in 1..n |-> IF i <= Len(vec) THEN vec[i] ELSE D(0)]

CollectCPUUsageGlobal(handle, read) ==
  IF ArrayStatus(handle, read) = ERROR_SUCCESS
  THEN CpuCoresLoop(read.items, Resize(<< >>, Len(read.items)))
  ELSE << >>

\* cpuUsageGlobal: the sum of cpuCoresUsage over max(1, size), at most 100
Max(a, b) == IF a < b THEN b ELSE a
CpuUsageGlobalOf(cpuCoresUsage) ==
  DMin(DDivInt(DSum(cpuCoresUsage), Max(1, Len(cpuCoresUsage))), D(100))

\* m_cpuCoresUsage[i] = min(cpuCoresUsage[i], 100.0)
ClipCores(cpuCoresUsage) ==
  [i \in 1..Len(cpuCoresUsage) |-> DMin(cpuCoresUsage[i], D(100))]

\* PdhGetFormattedCounterValue(m_hCpuUsage, PDH_FMT_DOUBLE | PDH_FMT_NOCAP100)
ProcessTimeValue(hCpuUsage, procs) ==
  LET hit == IF hCpuUsage = H_NULL THEN {}
             ELSE {i \in 1..Len(procs) : procs[i].inst = hCpuUsage[1]}
  IN  IF hit = {} THEN [status |-> PDH_ERROR, doubleValue |-> D(0)]
      ELSE [status |-> ERROR_SUCCESS,
            doubleValue |-> procs[CHOOSE i \in hit : \A j \in hit : i <= j].raw]

CollectCPUUsage(hCpuUsage, procs, logicalProcessorCount) ==
  LET v == ProcessTimeValue(hCpuUsage, procs)
  IN  IF v.status = ERROR_SUCCESS
      THEN DDivInt(v.doubleValue, logicalProcessorCount)
      ELSE D(0)

\* a variant of the assignment below that stores the sample as it is
SmoothLatest(previous, cpuUsage) == cpuUsage

\* m_cpuUsage = (m_cpuUsage + cpuUsage) * 0.5
Smooth(previous, cpuUsage) == DHalf(DAdd(previous, cpuUsage))

(***************************************************************************)
(* The environment: what the counter subsystem returns.                    *)
(***************************************************************************)
\* process ids GetCurrentProcessId may return, and the id of another process
Pids == {U32(10), U32(100)}
OtherPid == U32(999)

\* dwNumberOfProcessors
ProcessorCounts == {2, 4}

T3D == <<"3", "D">>
TCopy == <<"C", "o", "p", "y">>

\* an instance of "\GPU Engine(*)\Utilization Percentage"
GpuEngineInstance(pid, eng, engineType) ==
  SelfPidString(pid) \o <<"_", "e", "n", "g", "_">> \o FormatDecimal(U32(eng))
    \o KeywordEngType \o engineType

\* an instance of "\GPU Process Memory(*)\Dedicated Usage"
GpuMemoryInstance(pid) == SelfPidString(pid) \o <<"_", "p", "h", "y", "s", "_", "0">>

\* the instances of "\Processor Information(*)\% Processor Utility"
CoreInstance(cpu, core) ==
  FormatDecimal(U32(cpu)) \o <<",">> \o FormatDecimal(U32(core))
CpuTotalInstance == <<"0", ",", "_", "T", "o", "t", "a", "l">>
TotalInstance == <<"_", "T", "o", "t", "a", "l">>

Item(name, value) == [szName |-> name, value |-> value]
Read(items) == [ok |-> TRUE, items |-> items]
FailedRead == [ok |-> FALSE, items |-> << >>]

GpuReadA ==
  Read(<<Item(GpuEngineInstance(U32(100), 0, T3D), D(10)),
         Item(GpuEngineInstance(U32(100), 1, T3D), D(15)),
         Item(GpuEngineInstance(OtherPid, 0, T3D), D(99))>>)
GpuReadB ==
  Read(<<Item(GpuEngineInstance(U32(10), 0, TCopy), D(5)),
         Item(GpuEngineInstance(U32(100), 0, T3D), D(20)),
         Item(GpuEngineInstance(U32(10), 1, << >>), D(7))>>)

MemReadA ==
  Read(<<Item(GpuMemoryInstance(U32(10)), 4096), Item(GpuMemoryInstance(U32(100)), 1024),
         Item(GpuMemoryInstance(OtherPid), 512)>>)
MemReadB ==
  Read(<<Item(GpuMemoryInstance(U32(100)), 256), Item(GpuMemoryInstance(U32(100)), 128),
         Item(GpuMemoryInstance(U32(10)), 64)>>)

CoreValuesA == <<42, 58, 30, 70, 10>>
CoreValuesB == <<120, 100, 0, 250, 10>>
CoreItems(n, values) ==
  [i \in 1..n |-> Item(CoreInstance(0, i - 1), D(values[((i - 1) % 5) + 1]))]
\* one instance per core
CoreReadA(n) == Read(CoreItems(n, CoreValuesA))
\* one instance per core and the two totals, as the wildcard expands
CoreReadB(n) ==
  Read(CoreItems(n, CoreValuesB)
         \o <<Item(CpuTotalInstance, D(90)), Item(TotalInstance, D(90))>>)

Proc(inst, pid, raw) == [inst |-> inst, pid |-> pid, raw |-> D(raw)]
\* this process alone
ProcsAlone(pid, raw) == <<Proc("Process(app)", pid, raw)>>
\* two processes of the same executable, this one enumerated second
ProcsTwo(pid, raw) ==
  <<Proc("Process(app)", OtherPid, 80), Proc("Process(app#1)", pid, raw)>>

\* two processes of the same executable, this one enumerated first
ProcsTwoFirst(pid, raw) ==
  <<Proc("Process(app)", pid, raw), Proc("Process(app#1)", OtherPid, 80)>>

\* the process lists Initialize may meet
ProcLists(pid) == {ProcsAlone(pid, 20), ProcsTwo(pid, 20)}

\* two candidates none of which reports this process's id: the instance
\* names were enumerated before the "ID Process" values were read, and a
\* process of the same name has exited in between
ProcsNoMatch(pid) ==
  <<Proc("Process(app)", OtherPid, 80),
    Proc("Process(app#1)", CHOOSE q \in Pids : q # pid, 70)>>

\* every case of the candidate list: no candidate, one, two with this
\* process first or second, and two without this process
ResolverProcLists(pid) ==
  {<< >>, ProcsAlone(pid, 20), ProcsTwo(pid, 20), ProcsTwoFirst(pid, 20),
   ProcsNoMatch(pid)}

Snapshot(gpu, ded, shr, cores, procs) ==
  [gpu |-> gpu, ded |-> ded, shr |-> shr, cores |-> cores, procs |-> procs]

\* what one successful PdhCollectQueryData may make readable
Snapshots(pid, n) ==
  { Snapshot(GpuReadA, MemReadA, MemReadB, CoreReadA(n), ProcsAlone(pid, 20)),
    Snapshot(GpuReadB, MemReadB, MemReadA, CoreReadB(n), ProcsAlone(pid, 250 * n)),
    Snapshot(GpuReadA, MemReadB, MemReadB, CoreReadB(n), ProcsTwo(pid, 40)),
    Snapshot(FailedRead, MemReadA, FailedRead, FailedRead, ProcsTwoFirst(pid, 60)) }

\* one sample
OneSnapshot(pid, n) ==
  {Snapshot(GpuReadB, MemReadA, MemReadB, CoreReadA(n), ProcsAlone(pid, 20))}

NoSnapshot == Snapshot(FailedRead, FailedRead, FailedRead, FailedRead, << >>)

\* the counters Initialize registers
Counters == {"GpuUsage", "GpuDedicateMem", "GpuSharedMem", "CpuUsageGlobal", "CpuUsage"}
\* which registrations succeed: at most MaxRegFailures fail
RegOutcomes ==
  {reg \in [Counters -> BOOLEAN] :
     Cardinality({c \in Counters : ~reg[c]}) <= MaxRegFailures}
\* every registration succeeds
AllRegistered == {[c \in Counters |-> TRUE]}

(***************************************************************************)
(* State.                                                                  *)
(***************************************************************************)
VARIABLES
  \* the machine: GetCurrentProcessId() and dwNumberOfProcessors
  envPid, envProcessors,
  \* impl::gPerformanceCounter ("null" or "object") and the lifetime of the
  \* SimplePerfCounter it owned last ("none", "alive", "destroying", "freed")
  gPerformanceCounter, objState,
  \* members of SimplePerfCounter
  m_useCpuUtilizationGlobal, m_pid, m_logicalProcessorCount,
  m_pdhQuery, m_pdhProcessCounterPathQuery,
  m_hGpuUsage, m_hGpuDedicateMem, m_hGpuSharedMem, m_hCpuUsageGlobal, m_hCpuUsage,
  m_exit, m_mutex, m_workerThread,
  \* which counters the Setup functions of Initialize registered
  setupStatus,
  \* the members written under m_mutex
  m_gpuEngineUtilization, m_gpuMemory, m_cpuUsage, m_cpuUsageGlobal, m_cpuCoresUsage,
  \* the worker thread: how many run WorkerThread, its position
  \* ("terminated" once the process has ended), its locals, the data of the
  \* last successful PdhCollectQueryData, collections so far
  workers, wpc, wl, pdhData, ticks,
  \* the thread that calls Initialize and Shutdown: position ("initialize"
  \* between the publication of the object and the return of
  \* SimplePerfCounter::Initialize), the last two calls it made with what
  \* they returned, the number of calls
  cpc, lastCall, prevCall, nCalls,
  \* the threads that call the accessors: position ("enter" between the test
  \* of the pointer and the call through it), the call in progress or last
  \* made, what the pointer test saw, whether m_mutex was taken, the value
  \* returned
  rpc, rcall, rsaw, rlk, rret

envVars == <<envPid, envProcessors>>
configVars == <<m_useCpuUtilizationGlobal, m_pid, m_logicalProcessorCount>>
queryVars == <<m_pdhQuery, m_pdhProcessCounterPathQuery>>
counterVars == <<m_hGpuUsage, m_hGpuDedicateMem, m_hGpuSharedMem, m_hCpuUsageGlobal,
                 setupStatus>>
storeVars == <<m_gpuEngineUtilization, m_gpuMemory, m_cpuUsage, m_cpuUsageGlobal,
               m_cpuCoresUsage>>
callVars == <<cpc, lastCall, prevCall, nCalls>>
readerVars == <<rpc, rcall, rsaw, rlk, rret>>
vars == <<envVars, gPerformanceCounter, objState, configVars, queryVars, counterVars,
          m_hCpuUsage, m_exit, m_mutex, m_workerThread, storeVars,
          workers, wpc, wl, pdhData, ticks, callVars, readerVars>>

Readers == {"reader"}
NULLPTR == "null"
OBJECT == "object"
FREE == "free"
WORKER == "worker"

\* the locals of one iteration of WorkerThread
NoLocals ==
  [pdhStatus |-> ERROR_SUCCESS, gpuEngineUtilization |-> EmptyMap,
   gpuDedicatedMem |-> U64(0), gpuSharedMem |-> U64(0), cpuUsage |-> D(0),
   cpuUsageGlobal |-> D(0), cpuCoresUsage |-> << >>]

NoCall == [op |-> "none", useGlobalCPUUtilization |-> TRUE, ret |-> TRUE, created |-> FALSE]
InitializeCall(useGlobal, ret, created) ==
  [op |-> "Initialize", useGlobalCPUUtilization |-> useGlobal, ret |-> ret,
   created |-> created]
ShutdownCall == [op |-> "Shutdown", useGlobalCPUUtilization |-> TRUE, ret |-> TRUE,
                 created |-> FALSE]

\* the arguments of GetGPUEngineUtilization(const wchar_t*)
NullName == [null |-> TRUE, str |-> << >>]
Name(str) == [null |-> FALSE, str |-> str]
EngineNameArgs == {NullName, Name(T3D), Name(TCopy), Name(<<"X">>)}

\* the accessors of the public interface
Accessors ==
  {"GetUsedGPUDedicatedMemory", "GetUsedGPUSharedMemory", "GetGPUEngineUtilization",
   "GetGPUEngineUtilizationOf", "GetGPUEngineNames", "GetCPUUtilization",
   "GetCPUCoresUtilization"}
AccessorCalls ==
  {[kind |-> k, arg |-> NullName] : k \in Accessors \ {"GetGPUEngineUtilizationOf"}}
    \cup {[kind |-> "GetGPUEngineUtilizationOf", arg |-> a] : a \in EngineNameArgs}
NoAccessorCall == [kind |-> "none", arg |-> NullName]

(***************************************************************************)
(* A SimplePerfCounter as make_unique leaves it: value-initialized, so     *)
(* every member without an initializer is zero; m_pid is 0xFFFFFFFFu.      *)
(***************************************************************************)
ZeroStore ==
  /\ m_gpuEngineUtilization' = EmptyMap
  /\ m_gpuMemory' = [dedicated |-> U64(0), shared |-> U64(0)]
  /\ m_cpuUsage' = D(0)
  /\ m_cpuUsageGlobal' = D(0)
  /\ m_cpuCoresUsage' = << >>

ZeroMembers ==
  /\ m_useCpuUtilizationGlobal' = TRUE
  /\ m_pid' = UINT32_MAX
  /\ m_logicalProcessorCount' = 0
  /\ m_pdhQuery' = H_NULL
  /\ m_pdhProcessCounterPathQuery' = H_NULL
  /\ m_hGpuUsage' = H_NULL
  /\ m_hGpuDedicateMem' = H_NULL
  /\ m_hGpuSharedMem' = H_NULL
  /\ m_hCpuUsageGlobal' = H_NULL
  /\ m_hCpuUsage' = H_NULL
  /\ m_exit' = FALSE
  /\ m_mutex' = FREE
  /\ m_workerThread' = "none"
  /\ setupStatus' = [c \in Counters |-> FALSE]
  /\ ZeroStore

InitOn(pids, processorCounts) ==
  /\ envPid \in pids
  /\ envProcessors \in processorCounts
  /\ gPerformanceCounter = NULLPTR
  /\ objState = "none"
  /\ m_useCpuUtilizationGlobal = TRUE
  /\ m_pid = UINT32_MAX
  /\ m_logicalProcessorCount = 0
  /\ m_pdhQuery = H_NULL
  /\ m_pdhProcessCounterPathQuery = H_NULL
  /\ m_hGpuUsage = H_NULL
  /\ m_hGpuDedicateMem = H_NULL
  /\ m_hGpuSharedMem = H_NULL
  /\ m_hCpuUsageGlobal = H_NULL
  /\ m_hCpuUsage = H_NULL
  /\ m_exit = FALSE
  /\ m_mutex = FREE
  /\ m_workerThread = "none"
  /\ setupStatus = [c \in Counters |-> FALSE]
  /\ m_gpuEngineUtilization = EmptyMap
  /\ m_gpuMemory = [dedicated |-> U64(0), shared |-> U64(0)]
  /\ m_cpuUsage = D(0)
  /\ m_cpuUsageGlobal = D(0)
  /\ m_cpuCoresUsage = << >>
  /\ workers = 0
  /\ wpc = "none"
  /\ wl = NoLocals
  /\ pdhData = NoSnapshot
  /\ ticks = 0
  /\ cpc = "idle"
  /\ lastCall = NoCall
  /\ prevCall = NoCall
  /\ nCalls = 0
  /\ rpc = [r \in Readers |-> "idle"]
  /\ rcall = [r \in Readers |-> NoAccessorCall]
  /\ rsaw = [r \in Readers |-> FALSE]
  /\ rlk = [r \in Readers |-> FALSE]
  /\ rret = [r \in Readers |-> Returned(0)]

(***************************************************************************)
(* Initialize.                                                             *)
(***************************************************************************)
\* if (impl::gPerformanceCounter)
AlreadyInitialized == gPerformanceCounter # NULLPTR

\* PdhOpenQueryW: the handle it leaves
OpenQuery(ok) == IF ok THEN H_OPEN ELSE H_NULL

\* a variant of the result below that ignores the second PdhOpenQueryW
InitializeResultFirst(open1, open2) == open1

\* what SimplePerfCounter::Initialize returns: false when either
\* PdhOpenQueryW fails, true otherwise
InitializeResult(open1, open2) == open1 /\ open2

\* PdhAddCounterW of a wildcard counter, and the handle reset on failure
SetupCounter(ok) == IF ok THEN H_COUNTER ELSE H_NULL

\* SetupCounterCpuUsage, the process counter: registered unless the matched
\* path is empty
SetupProcessCounter(procs, pid, ok) ==
  LET counterPath == GetPathMatched(GetProcessPathList(procs), procs, pid)
  IN  IF counterPath = << >> THEN H_NULL
      ELSE PdhAddProcessCounter(counterPath, procs, ok)

Record(call) ==
  /\ prevCall' = lastCall
  /\ lastCall' = call
  /\ nCalls' = nCalls + 1

\* tiny_perf_counter::Initialize on an existing session
InitializeAgain(useGlobal) ==
  /\ Record(InitializeCall(useGlobal, TRUE, FALSE))
  /\ UNCHANGED <<envVars, gPerformanceCounter, objState, configVars, queryVars,
                 counterVars, m_hCpuUsage, m_exit, m_mutex, m_workerThread,
                 storeVars, workers, wpc, wl, pdhData, ticks, cpc, readerVars>>

\* the process has not been terminated (std::terminate ends every thread)
ProcessRuns == wpc # "terminated"

\* impl::gPerformanceCounter = std::make_unique<impl::SimplePerfCounter>():
\* the pointer is published before SimplePerfCounter::Initialize has run
InitializePublish ==
  /\ gPerformanceCounter' = OBJECT
  /\ objState' = "alive"
  /\ ZeroMembers
  /\ cpc' = "initialize"
  /\ UNCHANGED <<envVars, workers, wpc, wl, pdhData, ticks, lastCall, prevCall,
                 nCalls, readerVars>>

\* impl::gPerformanceCounter->Initialize(initParams): the members are
\* written without m_mutex
InitializeCreate(useGlobal, open1, open2, reg, procs) ==
  LET ok == InitializeResult(open1, open2)
  IN  /\ m_useCpuUtilizationGlobal' = useGlobal
      /\ m_pid' = envPid
      /\ m_pdhQuery' = OpenQuery(open1)
      /\ m_pdhProcessCounterPathQuery' = IF open1 THEN OpenQuery(open2) ELSE H_NULL
      /\ m_hGpuUsage' = IF ok THEN SetupCounter(reg["GpuUsage"]) ELSE H_NULL
      /\ m_hGpuDedicateMem' = IF ok THEN SetupCounter(reg["GpuDedicateMem"]) ELSE H_NULL
      /\ m_hGpuSharedMem' = IF ok THEN SetupCounter(reg["GpuSharedMem"]) ELSE H_NULL
      /\ m_hCpuUsageGlobal' = IF ok THEN SetupCounter(reg["CpuUsageGlobal"]) ELSE H_NULL
      /\ m_hCpuUsage' = IF ok THEN SetupProcessCounter(procs, envPid, reg["CpuUsage"])
                        ELSE H_NULL
      /\ setupStatus' =
           [c \in Counters |->
              /\ ok
              /\ IF c = "CpuUsage"
                 THEN SetupProcessCounter(procs, envPid, reg[c]) # H_NULL
                 ELSE SetupCounter(reg[c]) # H_NULL]
      /\ m_logicalProcessorCount' = IF ok THEN envProcessors ELSE 0
      /\ m_cpuCoresUsage' = IF ok THEN Resize(m_cpuCoresUsage, envProcessors)
                            ELSE m_cpuCoresUsage
      /\ m_exit' = IF ok THEN FALSE ELSE m_exit
      /\ m_workerThread' = IF ok THEN "joinable" ELSE m_workerThread
      /\ workers' = IF ok THEN workers + 1 ELSE workers
      /\ wpc' = IF ok THEN "loop" ELSE wpc
      /\ wl' = NoLocals
      /\ cpc' = "idle"
      /\ Record(InitializeCall(useGlobal, ok, TRUE))
      /\ UNCHANGED <<envVars, gPerformanceCounter, objState, m_mutex,
                     m_gpuEngineUtilization, m_gpuMemory, m_cpuUsage,
                     m_cpuUsageGlobal, pdhData, ticks, readerVars>>

\* tiny_perf_counter::Initialize: the test of the pointer with the return or
\* the publication of a new object, and then the call into the object
Initialize(useGlobal, open1, open2, reg, procs) ==
  /\ ProcessRuns
  /\ \/ /\ cpc = "idle"
        /\ nCalls < MaxCalls
        /\ IF AlreadyInitialized
           THEN InitializeAgain(useGlobal)
           ELSE InitializePublish
     \/ /\ cpc = "initialize"
        /\ InitializeCreate(useGlobal, open1, open2, reg, procs)

(***************************************************************************)
(* Shutdown: unique_ptr::reset and ~SimplePerfCounter.                     *)
(***************************************************************************)
\* tiny_perf_counter::Shutdown: nothing without a session; otherwise reset()
\* clears the pointer and then runs the destructor
Shutdown ==
  /\ ProcessRuns
  /\ cpc = "idle"
  /\ nCalls < MaxCalls
  /\ IF gPerformanceCounter = NULLPTR
     THEN /\ Record(ShutdownCall)
          /\ UNCHANGED <<gPerformanceCounter, objState, cpc>>
     ELSE /\ gPerformanceCounter' = NULLPTR
          /\ objState' = "destroying"
          /\ cpc' = IF m_workerThread = "joinable" THEN "dtor_exit" ELSE "dtor_close"
          /\ UNCHANGED <<lastCall, prevCall, nCalls>>
  /\ UNCHANGED <<envVars, configVars, queryVars, counterVars, m_hCpuUsage, m_exit,
                 m_mutex, m_workerThread, storeVars, workers, wpc, wl, pdhData,
                 ticks, readerVars>>

\* the destructor: lock, m_exit = true, unlock
DtorSetExit ==
  /\ ProcessRuns
  /\ cpc = "dtor_exit"
  /\ m_mutex = FREE
  /\ m_exit' = TRUE
  /\ cpc' = "dtor_join"
  /\ UNCHANGED <<envVars, gPerformanceCounter, objState, configVars, queryVars,
                 counterVars, m_hCpuUsage, m_mutex, m_workerThread, storeVars,
                 workers, wpc, wl, pdhData, ticks, lastCall, prevCall, nCalls,
                 readerVars>>

\* a variant of the condition below: a join that does not wait
JoinReturnsAtOnce == TRUE

\* m_workerThread.join() returns once WorkerThread has returned
JoinReturns == wpc = "exited"

\* the destructor: notify_all and join
DtorJoin ==
  /\ ProcessRuns
  /\ cpc = "dtor_join"
  /\ JoinReturns
  /\ m_workerThread' = "none"
  /\ wpc' = IF wpc = "exited" THEN "none" ELSE wpc
  /\ cpc' = "dtor_close"
  /\ UNCHANGED <<envVars, gPerformanceCounter, objState, configVars, queryVars,
                 counterVars, m_hCpuUsage, m_exit, m_mutex, storeVars, workers,
                 wl, pdhData, ticks, lastCall, prevCall, nCalls, readerVars>>

\* the destructor: PdhCloseQuery of both queries, then the members are
\* destroyed and the object is freed
DtorClose ==
  /\ ProcessRuns
  /\ cpc = "dtor_close"
  /\ ZeroMembers
  /\ objState' = "none"
  /\ wl' = NoLocals
  /\ pdhData' = NoSnapshot
  /\ cpc' = "idle"
  /\ Record(ShutdownCall)
  \* a thread still inside an accessor is left with a dangling object
  /\ rpc' = [r \in DOMAIN rpc |-> IF rpc[r] = "idle" THEN "idle" ELSE "dangling"]
  /\ UNCHANGED <<envVars, gPerformanceCounter, workers, wpc, ticks, rcall, rsaw, rlk,
                 rret>>

(***************************************************************************)
(* WorkerThread.                                                           *)
(***************************************************************************)
\* a variant of the condition below that never sees the flag
LoopConditionAlways == TRUE

\* while (!m_exit)
LoopCondition == ~m_exit

\* while (!m_exit): the loop ends
WExit ==
  /\ wpc = "loop"
  /\ ~LoopCondition
  /\ wpc' = "exited"
  /\ workers' = workers - 1
  /\ UNCHANGED <<envVars, gPerformanceCounter, objState, configVars, queryVars,
                 counterVars, m_hCpuUsage, m_exit, m_mutex, m_workerThread,
                 storeVars, wl, pdhData, ticks, callVars, readerVars>>

\* while (!m_exit): another iteration
WEnter ==
  /\ wpc = "loop"
  /\ LoopCondition
  /\ ticks < MaxTicks
  /\ wpc' = "collect"
  /\ UNCHANGED <<envVars, gPerformanceCounter, objState, configVars, queryVars,
                 counterVars, m_hCpuUsage, m_exit, m_mutex, m_workerThread,
                 storeVars, workers, wl, pdhData, ticks, callVars, readerVars>>

\* a variant of the branch below without the continue
AfterCollectAlways(pdhStatus) == "aggregate"

\* where the iteration goes after PdhCollectQueryData: continue on failure
AfterCollect(pdhStatus) == IF pdhStatus # ERROR_SUCCESS THEN "loop" ELSE "aggregate"

\* pdhStatus = PdhCollectQueryData(m_pdhQuery)
WCollect(pdhStatus, snapshot) ==
  /\ wpc = "collect"
  /\ ticks' = ticks + 1
  /\ wl' = [NoLocals EXCEPT !.pdhStatus = pdhStatus]
  /\ pdhData' = IF pdhStatus = ERROR_SUCCESS THEN snapshot ELSE pdhData
  /\ wpc' = AfterCollect(pdhStatus)
  /\ UNCHANGED <<envVars, gPerformanceCounter, objState, configVars, queryVars,
                 counterVars, m_hCpuUsage, m_exit, m_mutex, m_workerThread,
                 storeVars, workers, callVars, readerVars>>

\* if (processCpuUsagePathList.size() > 1)
NeedsResolution(pathList) == Len(pathList) > 1

\* the process counter after the !m_useCpuUtilizationGlobal block
ResolvedCounter(useGlobal, hCpuUsage, procs, pid) ==
  LET pathList == GetProcessPathList(procs)
      counterPath == GetPathMatched(pathList, procs, pid)
  IN  IF ~useGlobal /\ NeedsResolution(pathList) /\ counterPath # << >>
      THEN PdhAddProcessCounter(counterPath, procs, TRUE)
      ELSE hCpuUsage

\* a variant of the block below that reads a sample on every tick
ProcessCpuUsageAlwaysRead(useGlobal, previous, hCpuUsage, procs, n) ==
  IF ~useGlobal THEN CollectCPUUsage(hCpuUsage, procs, n) ELSE previous

\* the local cpuUsage after the !m_useCpuUtilizationGlobal block
ProcessCpuUsage(useGlobal, previous, hCpuUsage, procs, n) ==
  IF ~useGlobal /\ ~NeedsResolution(GetProcessPathList(procs))
  THEN CollectCPUUsage(hCpuUsage, procs, n)
  ELSE previous

\* where the iteration goes after the aggregators: on to the critical
\* section; when CollectGPUUtilization ran into undefined behaviour the
\* exception of the string constructor may leave WorkerThread and
\* terminate the process, or the iteration may go on with the map
AfterAggregate(gpuEngineUtilization) ==
  IF gpuEngineUtilization.ub THEN {"terminated", "lock"} ELSE {"lock"}

\* from CollectGPUUtilization() down to the end of the CPU block
WAggregate ==
  /\ wpc = "aggregate"
  /\ LET cpuCoresUsage == CollectCPUUsageGlobal(m_hCpuUsageGlobal, pdhData.cores)
         self == SelfPidString(m_pid)
     IN  wl' = [pdhStatus |-> wl.pdhStatus,
                gpuEngineUtilization |->
                  CollectGPUUtilization(m_hGpuUsage, pdhData.gpu, self).v,
                gpuDedicatedMem |->
                  CollectGPUMemory(m_hGpuDedicateMem, pdhData.ded, self),
                gpuSharedMem |->
                  CollectGPUMemory(m_hGpuSharedMem, pdhData.shr, self),
                cpuUsage |->
                  ProcessCpuUsage(m_useCpuUtilizationGlobal, m_cpuUsage, m_hCpuUsage,
                                  pdhData.procs, m_logicalProcessorCount),
                cpuUsageGlobal |-> CpuUsageGlobalOf(cpuCoresUsage),
                cpuCoresUsage |-> cpuCoresUsage]
  /\ m_hCpuUsage' = ResolvedCounter(m_useCpuUtilizationGlobal, m_hCpuUsage,
                                    pdhData.procs, m_pid)
  /\ wpc' \in AfterAggregate(CollectGPUUtilization(m_hGpuUsage, pdhData.gpu,
                                                   SelfPidString(m_pid)))
  /\ UNCHANGED <<envVars, gPerformanceCounter, objState, configVars, queryVars,
                 counterVars, m_exit, m_mutex, m_workerThread, storeVars, workers,
                 pdhData, ticks, callVars, readerVars>>

\* std::unique_lock lock(m_mutex)
WLock ==
  /\ wpc = "lock"
  /\ m_mutex = FREE
  /\ m_mutex' = WORKER
  /\ wpc' = "m_cpuUsage"
  /\ UNCHANGED <<envVars, gPerformanceCounter, objState, configVars, queryVars,
                 counterVars, m_hCpuUsage, m_exit, m_workerThread, storeVars,
                 workers, wl, pdhData, ticks, callVars, readerVars>>

\* the assignments of the critical section, in order; the position names the
\* member being written
CommitOrder ==
  <<"m_cpuUsage", "m_cpuUsageGlobal", "m_gpuEngineUtilization", "m_gpuMemory.dedicated",
    "m_gpuMemory.shared", "m_cpuCoresUsage", "sleep">>
NextCommit(pc) == CommitOrder[(CHOOSE i \in 1..6 : CommitOrder[i] = pc) + 1]

\* the scope of the unique_lock ends after the last assignment
ReleasesLock(pc) == pc = "m_cpuCoresUsage"

\* one assignment of the critical section; the last one ends the scope of
\* the lock
WCommit ==
  /\ wpc \in {CommitOrder[i] : i \in 1..6}
  /\ m_cpuUsage' = IF wpc = "m_cpuUsage" THEN Smooth(m_cpuUsage, wl.cpuUsage)
                   ELSE m_cpuUsage
  /\ m_cpuUsageGlobal' = IF wpc = "m_cpuUsageGlobal" THEN wl.cpuUsageGlobal
                         ELSE m_cpuUsageGlobal
  /\ m_gpuEngineUtilization' =
       IF wpc = "m_gpuEngineUtilization" THEN wl.gpuEngineUtilization
       ELSE m_gpuEngineUtilization
  /\ m_gpuMemory' =
       IF wpc = "m_gpuMemory.dedicated"
       THEN [m_gpuMemory EXCEPT !.dedicated = wl.gpuDedicatedMem]
       ELSE IF wpc = "m_gpuMemory.shared"
       THEN [m_gpuMemory EXCEPT !.shared = wl.gpuSharedMem]
       ELSE m_gpuMemory
  /\ m_cpuCoresUsage' = IF wpc = "m_cpuCoresUsage" THEN ClipCores(wl.cpuCoresUsage)
                        ELSE m_cpuCoresUsage
  /\ m_mutex' = IF ReleasesLock(wpc) THEN FREE ELSE m_mutex
  /\ wpc' = NextCommit(wpc)
  /\ UNCHANGED <<envVars, gPerformanceCounter, objState, configVars, queryVars,
                 counterVars, m_hCpuUsage, m_exit, m_workerThread, workers, wl,
                 pdhData, ticks, callVars, readerVars>>

\* std::this_thread::sleep_for(m_intervalPeriod)
WSleep ==
  /\ wpc = "sleep"
  /\ wpc' = "loop"
  /\ UNCHANGED <<envVars, gPerformanceCounter, objState, configVars, queryVars,
                 counterVars, m_hCpuUsage, m_exit, m_mutex, m_workerThread,
                 storeVars, workers, wl, pdhData, ticks, callVars, readerVars>>

(***************************************************************************)
(* The public accessors.                                                   *)
(***************************************************************************)
\* the accessors of SimplePerfCounter that take m_mutex
Locks(kind) ==
  kind \in {"GetUsedGPUDedicatedMemory", "GetUsedGPUSharedMemory",
            "GetCPUUtilization", "GetCPUCoresUtilization"}

\* what an accessor returns without a session
Default(kind) ==
  CASE kind \in {"GetUsedGPUDedicatedMemory", "GetUsedGPUSharedMemory"} -> U64(0)
    [] kind \in {"GetGPUEngineUtilization", "GetGPUEngineUtilizationOf",
                 "GetCPUUtilization"} -> D(0)
    [] kind = "GetCPUCoresUtilization" -> << >>
    [] OTHER -> {}

\* SimplePerfCounter::GetGPUEngineUtilization(engineName): find, or 0.0
EngineUtilizationOf(map, engineName) ==
  IF engineName \in DOMAIN map THEN map[engineName] ELSE D(0)

\* a variant of the selection below with the two scalars exchanged
SelectCPUUtilizationSwapped(useGlobal, cpuUsageGlobal, cpuUsage) ==
  IF useGlobal THEN cpuUsage ELSE cpuUsageGlobal

\* SimplePerfCounter::GetCPUUtilization
SelectCPUUtilization(useGlobal, cpuUsageGlobal, cpuUsage) ==
  IF useGlobal THEN cpuUsageGlobal ELSE cpuUsage

\* what the accessor of SimplePerfCounter reads; the name list of
\* GetGPUEngineNames is given as the set of its elements (an unordered_map
\* fixes no order)
AccessorValue(call, map) ==
  CASE call.kind = "GetUsedGPUDedicatedMemory" -> m_gpuMemory.dedicated
    [] call.kind = "GetUsedGPUSharedMemory" -> m_gpuMemory.shared
    [] call.kind = "GetGPUEngineUtilization" -> EngineUtilizationOf(map, T3D)
    [] call.kind = "GetGPUEngineUtilizationOf" -> EngineUtilizationOf(map, call.arg.str)
    [] call.kind = "GetCPUUtilization" ->
         SelectCPUUtilization(m_useCpuUtilizationGlobal, m_cpuUsageGlobal, m_cpuUsage)
    [] call.kind = "GetCPUCoresUtilization" -> m_cpuCoresUsage
    [] OTHER -> DOMAIN map

\* a variant of the test below without the test of the pointer
EntersObjectUnchecked(call) ==
  ~(call.kind = "GetGPUEngineUtilizationOf" /\ call.arg.null)

\* whether the public function enters the SimplePerfCounter
EntersObject(call) ==
  /\ ~(call.kind = "GetGPUEngineUtilizationOf" /\ call.arg.null)
  /\ gPerformanceCounter # NULLPTR

\* the public function up to its test of the pointer: the default is
\* returned at once, or the function goes on to the call
RCall(r, call) ==
  /\ ProcessRuns
  /\ rpc[r] = "idle"
  /\ rcall' = [rcall EXCEPT ![r] = call]
  /\ rsaw' = [rsaw EXCEPT ![r] = EntersObject(call)]
  /\ rlk' = [rlk EXCEPT ![r] = FALSE]
  /\ IF EntersObject(call)
     THEN /\ rpc' = [rpc EXCEPT ![r] = "enter"]
          /\ rret' = rret
     ELSE /\ rpc' = rpc
          /\ rret' = [rret EXCEPT ![r] = Returned(Default(call.kind))]
  /\ UNCHANGED <<envVars, gPerformanceCounter, objState, configVars, queryVars,
                 counterVars, m_hCpuUsage, m_exit, m_mutex, m_workerThread,
                 storeVars, workers, wpc, wl, pdhData, ticks, callVars>>

\* where the accessor of SimplePerfCounter starts
FirstPosition(kind) == IF Locks(kind) THEN "lock" ELSE "read"

\* impl::gPerformanceCounter->...: the pointer is read again for the call,
\* with no synchronisation with Shutdown. When reset() has cleared it since
\* the test, the call is made on a null pointer (undefined: the access
\* through it faults and the process ends), or, when the compiler kept the
\* value of the test, on the object being destroyed
REnter(r) ==
  /\ ProcessRuns
  /\ rpc[r] = "enter"
  /\ IF gPerformanceCounter # NULLPTR
     THEN /\ rpc' = [rpc EXCEPT ![r] = FirstPosition(rcall[r].kind)]
          /\ rret' = rret
          /\ wpc' = wpc
     ELSE \/ /\ rpc' = [rpc EXCEPT ![r] = "idle"]
             /\ rret' = [rret EXCEPT ![r] = Undefined(Default(rcall[r].kind))]
             /\ wpc' = "terminated"
          \/ /\ rpc' = [rpc EXCEPT ![r] = FirstPosition(rcall[r].kind)]
             /\ rret' = rret
             /\ wpc' = wpc
  /\ UNCHANGED <<envVars, gPerformanceCounter, objState, configVars, queryVars,
                 counterVars, m_hCpuUsage, m_exit, m_mutex, m_workerThread,
                 storeVars, workers, wl, pdhData, ticks, callVars, rcall,
                 rsaw, rlk>>

\* std::unique_lock lock(m_mutex) of an accessor
RLock(r) ==
  /\ ProcessRuns
  /\ rpc[r] = "lock"
  /\ m_mutex = FREE
  /\ m_mutex' = r
  /\ rlk' = [rlk EXCEPT ![r] = TRUE]
  /\ rpc' = [rpc EXCEPT ![r] = "read"]
  /\ UNCHANGED <<envVars, gPerformanceCounter, objState, configVars, queryVars,
                 counterVars, m_hCpuUsage, m_exit, m_workerThread, storeVars,
                 workers, wpc, wl, pdhData, ticks, callVars, rcall, rsaw, rret>>

\* a read of m_gpuEngineUtilization without m_mutex while the worker assigns
\* it is a data race
RacesWithCommit(r) ==
  /\ ~Locks(rcall[r].kind)
  /\ wpc = "m_gpuEngineUtilization"

\* a read of m_useCpuUtilizationGlobal or of m_cpuCoresUsage while
\* SimplePerfCounter::Initialize, which writes them without m_mutex, runs
\* is a data race
RacesWithInitialize(r) ==
  /\ cpc = "initialize"
  /\ rcall[r].kind \in {"GetCPUUtilization", "GetCPUCoresUtilization"}

\* the read of the member and the return; a racing read may see the map
\* before or after the assignment and returns an undefined value, or it
\* faults (the reader walks nodes the assignment frees), which ends the
\* process; so may a read that races with Initialize
RRead(r) ==
  /\ ProcessRuns
  /\ rpc[r] = "read"
  /\ IF RacesWithCommit(r)
     THEN \E map \in {m_gpuEngineUtilization, wl.gpuEngineUtilization} :
            rret' = [rret EXCEPT ![r] = Undefined(AccessorValue(rcall[r], map))]
     ELSE IF RacesWithInitialize(r)
     THEN rret' = [rret EXCEPT ![r] =
                     Undefined(AccessorValue(rcall[r], m_gpuEngineUtilization))]
     ELSE rret' = [rret EXCEPT ![r] =
                     Returned(AccessorValue(rcall[r], m_gpuEngineUtilization))]
  /\ wpc' \in IF RacesWithCommit(r) \/ RacesWithInitialize(r)
              THEN {"terminated", wpc} ELSE {wpc}
  /\ m_mutex' = IF m_mutex = r THEN FREE ELSE m_mutex
  /\ rpc' = [rpc EXCEPT ![r] = "idle"]
  /\ UNCHANGED <<envVars, gPerformanceCounter, objState, configVars, queryVars,
                 counterVars, m_hCpuUsage, m_exit, m_workerThread, storeVars,
                 workers, wl, pdhData, ticks, callVars, rcall, rsaw, rlk>>

\* an accessor that continues on an object that has been freed (through
\* the pointer reset() has cleared, or on the freed members): undefined,
\* the access faults, which ends the process, or the call returns
RDangling(r) ==
  /\ ProcessRuns
  /\ rpc[r] = "dangling"
  /\ rret' = [rret EXCEPT ![r] = Undefined(Default(rcall[r].kind))]
  /\ rpc' = [rpc EXCEPT ![r] = "idle"]
  /\ wpc' \in {"terminated", wpc}
  /\ UNCHANGED <<envVars, gPerformanceCounter, objState, configVars, queryVars,
                 counterVars, m_hCpuUsage, m_exit, m_mutex, m_workerThread,
                 storeVars, workers, wl, pdhData, ticks, callVars, rcall,
                 rsaw, rlk>>

(***************************************************************************)
(* The specifications.                                                     *)
(***************************************************************************)
\* Initialize calls of the controlling thread; the counter subsystem is
\* consulted only by SimplePerfCounter::Initialize
Initializes(regOutcomes, procLists) ==
  \E useGlobal \in BOOLEAN :
    IF cpc = "idle"
    THEN \E reg \in AllRegistered, procs \in procLists :
           Initialize(useGlobal, TRUE, TRUE, reg, procs)
    ELSE \E open1 \in BOOLEAN, open2 \in BOOLEAN, reg \in regOutcomes,
            procs \in procLists :
           Initialize(useGlobal, open1, open2, reg, procs)

Destructor ==
  \/ DtorSetExit
  \/ DtorJoin
  \/ DtorClose

Worker(snapshots) ==
  \/ WExit
  \/ WEnter
  \/ \E pdhStatus \in {ERROR_SUCCESS, PDH_ERROR}, snapshot \in snapshots :
       WCollect(pdhStatus, snapshot)
  \/ WAggregate
  \/ WLock
  \/ WCommit
  \/ WSleep

Accessor(r) ==
  \/ \E call \in AccessorCalls : RCall(r, call)
  \/ REnter(r)
  \/ RLock(r)
  \/ RRead(r)
  \/ RDangling(r)

\* The whole program: the controlling thread, the worker and an accessor
\* thread, on one machine, every counter registered, one sample.
Init == InitOn({U32(10)}, {2})
Next ==
  \/ Initializes(AllRegistered, {ProcsAlone(envPid, 20)})
  \/ Shutdown
  \/ Destructor
  \/ Worker(OneSnapshot(envPid, envProcessors))
  \/ \E r \in Readers : Accessor(r)
Spec == Init /\ [][Next]_vars

\* The life cycle: the controlling thread and the worker, with queries that
\* fail to open and counters that fail to register.
NextLifecycle ==
  \/ Initializes(RegOutcomes, ProcLists(envPid))
  \/ Shutdown
  \/ Destructor
  \/ Worker(OneSnapshot(envPid, envProcessors))
SpecLifecycle == Init /\ [][NextLifecycle]_vars

\* the aggregators and the re-resolution of the process counter return:
\* the worker goes on from them to its critical section; within
\* NextLifecycle this is the step WAggregate, enabled whenever the worker is
\* at that position
AggregatorsReturn == wpc = "aggregate" /\ wpc' = "lock"

\* a step of the worker thread, as seen on its position
WorkerAdvances(snapshots) ==
  \/ WExit
  \/ WEnter
  \/ \E pdhStatus \in {ERROR_SUCCESS, PDH_ERROR}, snapshot \in snapshots :
       WCollect(pdhStatus, snapshot)
  \/ AggregatorsReturn
  \/ WLock
  \/ WCommit
  \/ WSleep

\* The life cycle under fair scheduling: a thread that can take a step
\* eventually takes one (the worker's sleep_for ends, a PDH call returns, a
\* free mutex is acquired, the destructor's join returns once the worker
\* has returned).
SpecShutdownFair ==
  /\ Init
  /\ [][NextLifecycle]_vars
  /\ WF_wpc(WorkerAdvances(OneSnapshot(envPid, envProcessors)))
  /\ WF_vars(Destructor)

\* Sampling: the worker of one session on every machine and every sample.
InitSampling == InitOn(Pids, ProcessorCounts)
NextSampling ==
  \/ Initializes(RegOutcomes, ProcLists(envPid))
  \/ Worker(Snapshots(envPid, envProcessors))
SpecSampling == InitSampling /\ [][NextSampling]_vars

\* Resolution of the process counter: the worker of one session, every
\* counter registered, on samples that differ in the candidate list.
ResolverSnapshots(pid, n) ==
  {Snapshot(GpuReadA, MemReadA, MemReadB, CoreReadA(n), procs) :
     procs \in ResolverProcLists(pid)}
InitResolver == InitOn(Pids, {2})
NextResolver ==
  \/ Initializes(AllRegistered, ResolverProcLists(envPid))
  \/ Worker(ResolverSnapshots(envPid, envProcessors))
SpecResolver == InitResolver /\ [][NextResolver]_vars

(***************************************************************************)
(* Properties.                                                             *)
(***************************************************************************)
QueriesOpen == m_pdhQuery # H_NULL /\ m_pdhProcessCounterPathQuery # H_NULL

\* the controlling thread has just returned from the second of two
\* consecutive Initialize calls
TwoInitializeCalls ==
  /\ cpc = "idle"
  /\ lastCall.op = "Initialize"
  /\ prevCall.op = "Initialize"

\* C1: after two consecutive Initialize calls with no Shutdown
\* between them both calls have returned success and exactly one worker
\* thread exists; and at most one worker thread is alive in every state.
C1_IdempotentInitialize ==
  /\ workers <= 1
  /\ TwoInitializeCalls => (prevCall.ret /\ lastCall.ret /\ workers = 1)

\* a session whose worker was started, seen while the worker is outside
\* its critical section (what an accessor that takes m_mutex can see)
SessionVisible ==
  /\ gPerformanceCounter # NULLPTR
  /\ m_workerThread = "joinable"
  /\ m_mutex # WORKER

\* C2: during the lifetime of a session the core vector GetCPUCoresUtilization
\* copies has as many elements as the logical processor count captured at
\* Initialize.
C2_CoreVectorLength ==
  SessionVisible => Len(m_cpuCoresUsage) = m_logicalProcessorCount

InRange(x) == DLeq(D(0), x) /\ DLeq(x, D(100))

\* C3: the scalar GetCPUUtilization returns, in the global and in the
\* process-specific configuration, and every element GetCPUCoresUtilization
\* returns lie in [0, 100].
C3_PercentagesInRange ==
  SessionVisible =>
    /\ InRange(IF m_useCpuUtilizationGlobal THEN m_cpuUsageGlobal ELSE m_cpuUsage)
    /\ \A i \in 1..Len(m_cpuCoresUsage) : InRange(m_cpuCoresUsage[i])

\* C4: an accessor that is reading the member it returns holds m_mutex, and
\* its read does not overlap the worker's assignment of that member.
C4_AccessorsReadUnderLock ==
  \A r \in Readers :
    rpc[r] = "read" => (m_mutex = r /\ ~RacesWithCommit(r))

\* the defaults of the accessors, by kind
IsDefaultOf(kind, returned) ==
  /\ ~returned.ub
  /\ CASE kind \in {"GetUsedGPUDedicatedMemory", "GetUsedGPUSharedMemory"} ->
            returned.v = <<0, 0, 0, 0>>
       [] kind \in {"GetGPUEngineUtilization", "GetGPUEngineUtilizationOf",
                    "GetCPUUtilization"} -> returned.v = <<0, 1>>
       [] kind = "GetCPUCoresUtilization" -> returned.v = << >>
       [] kind = "GetGPUEngineNames" -> returned.v = {}
       [] OTHER -> FALSE

\* reader r makes a step from outside every accessor
CallsFromIdle(r) ==
  /\ rpc[r] = "idle"
  /\ <<rpc[r], rcall[r], rsaw[r], rlk[r]>>' # <<rpc[r], rcall[r], rsaw[r], rlk[r]>>

\* C5: an accessor called while no session is active (the pointer is null
\* and no destructor is running) returns its default in that same step,
\* without taking m_mutex and without waiting.
C5_DefaultWithoutSession ==
  [][\A r \in Readers :
       (gPerformanceCounter = NULLPTR /\ objState = "none" /\ CallsFromIdle(r)) =>
         /\ rpc'[r] = "idle"
         /\ ~rlk'[r]
         /\ m_mutex' = m_mutex
         /\ IsDefaultOf(rcall'[r].kind, rret'[r])]_vars

C5_Witness ==
  /\ lastCall.op = "Shutdown"
  /\ gPerformanceCounter = NULLPTR
  /\ objState = "none"
  /\ ticks > 0
  /\ \E r \in Readers :
       /\ rpc[r] = "idle"
       /\ rcall[r].kind = "GetCPUCoresUtilization"
       /\ ~rsaw[r]
       /\ ~rlk[r]
       /\ rret[r] = Returned(<< >>)

\* the worker has written every member of this iteration
Committed == wpc = "sleep"

\* the store holds what the aggregators make of the data of the last
\* successful collection (the process scalar apart, which is smoothed)
StoreIsOfSample ==
  LET self == SelfPidString(m_pid)
      cores == CollectCPUUsageGlobal(m_hCpuUsageGlobal, pdhData.cores)
  IN  /\ m_gpuEngineUtilization = CollectGPUUtilization(m_hGpuUsage, pdhData.gpu, self).v
      /\ m_gpuMemory.dedicated = CollectGPUMemory(m_hGpuDedicateMem, pdhData.ded, self)
      /\ m_gpuMemory.shared = CollectGPUMemory(m_hGpuSharedMem, pdhData.shr, self)
      /\ m_cpuCoresUsage = ClipCores(cores)
      /\ m_cpuUsageGlobal = CpuUsageGlobalOf(cores)

\* C6: a PdhCollectQueryData that fails leaves every member of the store as
\* it was and sends the worker, still running, back to the head of its
\* loop; a collection that succeeds goes on to the aggregators, and the
\* iteration commits what they make of its data.
C6_FailedCollectionSkipsTick ==
  /\ [][(wpc = "collect" /\ ticks' = ticks + 1) =>
          IF wl'.pdhStatus # ERROR_SUCCESS
          THEN UNCHANGED storeVars /\ wpc' = "loop" /\ workers' = workers
          ELSE UNCHANGED storeVars /\ wpc' = "aggregate"]_vars
  /\ [](Committed => (wl.pdhStatus = ERROR_SUCCESS /\ StoreIsOfSample))

C6_Witness ==
  /\ wpc = "loop"
  /\ wl.pdhStatus # ERROR_SUCCESS
  /\ ticks = 2
  /\ workers = 1
  /\ m_gpuMemory.dedicated # U64(0)
  /\ m_cpuUsageGlobal # D(0)

\* C7: an Initialize returns failure exactly when it creates the session
\* and one of the two queries fails to open, and then no worker is started;
\* an Initialize that creates the session and opens both queries starts the
\* worker, whichever counters failed to register.
C7_InitializeFailsOnlyOnQueryOpen ==
  (cpc = "idle" /\ lastCall.op = "Initialize") =>
    /\ lastCall.ret = (~lastCall.created \/ QueriesOpen)
    /\ (lastCall.created /\ lastCall.ret) =>
         (m_workerThread = "joinable" /\ workers = 1)
    /\ ~lastCall.ret => (m_workerThread = "none" /\ workers = 0 /\ wpc = "none")

C7_Witness ==
  /\ cpc = "idle"
  /\ lastCall.op = "Initialize"
  /\ lastCall.created
  /\ lastCall.ret
  /\ workers = 1
  /\ \E c \in Counters : ~setupStatus[c]

\* the counters registered with a wildcard path
WildcardCounters == Counters \ {"CpuUsage"}

\* the metric of counter c is at its zero default
MetricIsDefault(c) ==
  CASE c = "GpuUsage" -> m_gpuEngineUtilization = EmptyMap
    [] c = "GpuDedicateMem" -> m_gpuMemory.dedicated = U64(0)
    [] c = "GpuSharedMem" -> m_gpuMemory.shared = U64(0)
    [] c = "CpuUsageGlobal" -> m_cpuCoresUsage = << >> /\ m_cpuUsageGlobal = D(0)
    [] OTHER -> m_cpuUsage = D(0)

\* the metric of wildcard counter c is what a registered counter gives on
\* the data of the last collection
MetricAsRegistered(c) ==
  LET self == SelfPidString(m_pid)
      cores == CollectCPUUsageGlobal(H_COUNTER, pdhData.cores)
  IN  CASE c = "GpuUsage" ->
             m_gpuEngineUtilization = CollectGPUUtilization(H_COUNTER, pdhData.gpu, self).v
        [] c = "GpuDedicateMem" ->
             m_gpuMemory.dedicated = CollectGPUMemory(H_COUNTER, pdhData.ded, self)
        [] c = "GpuSharedMem" ->
             m_gpuMemory.shared = CollectGPUMemory(H_COUNTER, pdhData.shr, self)
        [] OTHER ->
             /\ m_cpuCoresUsage = ClipCores(cores)
             /\ m_cpuUsageGlobal = CpuUsageGlobalOf(cores)

\* C8, as stated: after every tick the metric of a counter that failed to
\* register at Initialize is at its zero default.
C8_FailedRegistrationReportsDefault ==
  Committed => \A c \in Counters : ~setupStatus[c] => MetricIsDefault(c)

\* the worker assigns m_cpuUsage in this step
CommitsProcessMetric == wpc = "m_cpuUsage" /\ wpc' = "m_cpuUsageGlobal"

\* the instances of the tick's sample the process counter is bound to
ProcessInstances ==
  IF m_hCpuUsage = H_NULL THEN {}
  ELSE {i \in 1..Len(pdhData.procs) : pdhData.procs[i].inst = m_hCpuUsage[1]}

\* the process scalar this step publishes is the one a registered process
\* counter gives on the data of the tick: the previous scalar in global
\* mode and on a tick with more than one candidate; otherwise half the
\* previous scalar plus half of (raw value / logical processors) of the
\* instance the counter is bound to, or of 0 when the tick has no such
\* instance
ProcessMetricAsRegistered ==
  IF m_useCpuUtilizationGlobal \/ Len(pdhData.procs) > 1
  THEN m_cpuUsage' = m_cpuUsage
  ELSE IF ProcessInstances = {}
  THEN m_cpuUsage' = DHalf(m_cpuUsage)
  ELSE \E i \in ProcessInstances :
         m_cpuUsage' = DAdd(DHalf(m_cpuUsage),
                            DHalf(DDivInt(pdhData.procs[i].raw,
                                          m_logicalProcessorCount)))

\* C8, amended: after every tick the metric of a wildcard counter that
\* failed to register at Initialize is at its zero default and the metric of
\* one that registered is what its aggregator makes of the tick's data,
\* whichever other counters failed; the process scalar of a process counter
\* that failed to register stays 0 for as long as no re-resolution has
\* registered the counter; the process scalar of a process counter that
\* registered is what a registered counter gives on the tick's data,
\* whichever other counters failed, and its counter is bound anew only by
\* the re-resolution of a tick with more than one candidate.
C8_FailedWildcardRegistrationReportsDefault ==
  /\ [](Committed =>
          \A c \in WildcardCounters :
            IF setupStatus[c] THEN MetricAsRegistered(c) ELSE MetricIsDefault(c))
  /\ [][(~setupStatus["CpuUsage"] /\ m_cpuUsage = D(0) /\ m_hCpuUsage = H_NULL
           /\ m_hCpuUsage' = H_NULL) => m_cpuUsage' = D(0)]_vars
  /\ [][(setupStatus["CpuUsage"] /\ CommitsProcessMetric) =>
          ProcessMetricAsRegistered]_vars
  /\ [][(setupStatus["CpuUsage"] /\ setupStatus'["CpuUsage"]
           /\ m_hCpuUsage' # m_hCpuUsage) =>
          (wpc = "aggregate" /\ ~m_useCpuUtilizationGlobal
           /\ Len(pdhData.procs) > 1)]_vars

C8_Witness ==
  /\ Committed
  /\ ticks = 2
  /\ ~setupStatus["GpuUsage"]
  /\ pdhData.gpu.ok
  /\ m_gpuEngineUtilization = EmptyMap
  /\ m_gpuMemory.dedicated # U64(0)
  /\ m_gpuMemory.shared # U64(0)
  /\ m_cpuCoresUsage # << >>
  /\ setupStatus["CpuUsage"]
  /\ ~m_useCpuUtilizationGlobal
  /\ m_cpuUsage # D(0)

\* what follows the first from characters of a name
After(s, from) == SubSeq(s, from + 1, Len(s))

\* the number of leading decimal digits of s
RECURSIVE LeadingDigits(_)
LeadingDigits(s) ==
  IF s # << >> /\ IsDigit(Head(s)) THEN 1 + LeadingDigits(Tail(s)) ELSE 0

\* the value of a non-empty sequence of decimal digits
RECURSIVE DigitsValue(_)
DigitsValue(s) ==
  IF Len(s) = 1 THEN DigitValue(s[1])
  ELSE DigitsValue(SubSeq(s, 1, Len(s) - 1)) * 10 + DigitValue(s[Len(s)])

\* the process id encoded in an instance name ("pid_<digits>") is pid
OwnedBy(name, pid) ==
  LET pos == Find(name, <<"p", "i", "d", "_">>)
      rest == After(name, pos + 4)
      n == LeadingDigits(rest)
  IN  pos # NPOS /\ n > 0 /\ U32(DigitsValue(SubSeq(rest, 1, n))) = pid

\* the engine map of the instances of pid alone
OwnEngineMap(items, pid) ==
  LET Own(item) == OwnedBy(item.szName, pid) /\ EngineTypeOf(item.szName).v # << >>
      own == SelectSeq(items, Own)
      types == {EngineTypeOf(own[i].szName).v : i \in 1..Len(own)}
      OfType(t) == SelectSeq(own, LAMBDA item : EngineTypeOf(item.szName).v = t)
  IN  [t \in types |-> DSum([i \in 1..Len(OfType(t)) |-> OfType(t)[i].value])]

\* the memory total of the instances of pid alone
RECURSIVE OwnMemory(_, _)
OwnMemory(items, pid) ==
  IF items = << >> THEN 0
  ELSE (IF OwnedBy(Head(items).szName, pid) THEN Head(items).value ELSE 0)
         + OwnMemory(Tail(items), pid)

\* C9: after every tick the engine map and the two memory totals are made
\* of the instances whose encoded process id is the caller's, and of no
\* other instance.
C9_OnlyOwnInstances ==
  Committed =>
    /\ (m_hGpuUsage # H_NULL /\ pdhData.gpu.ok) =>
         m_gpuEngineUtilization = OwnEngineMap(pdhData.gpu.items, m_pid)
    /\ (m_hGpuDedicateMem # H_NULL /\ pdhData.ded.ok) =>
         m_gpuMemory.dedicated = U64(OwnMemory(pdhData.ded.items, m_pid))
    /\ (m_hGpuSharedMem # H_NULL /\ pdhData.shr.ok) =>
         m_gpuMemory.shared = U64(OwnMemory(pdhData.shr.items, m_pid))

\* C10: an Initialize that creates the session sets the selection to its
\* parameter and one that finds a session leaves it as it is; and, once
\* the session has been initialized, GetCPUUtilization returns the global
\* scalar when the selection is true and the process scalar when it is
\* false.
C10_SelectionFixedAtCreation ==
  [][/\ (lastCall'.op = "Initialize" /\ nCalls' = nCalls + 1) =>
          IF lastCall'.created
          THEN m_useCpuUtilizationGlobal' = lastCall'.useGlobalCPUUtilization
          ELSE m_useCpuUtilizationGlobal' = m_useCpuUtilizationGlobal
     /\ \A r \in Readers :
          (/\ rpc[r] = "read" /\ rpc'[r] = "idle"
           /\ rcall[r].kind = "GetCPUUtilization"
           /\ cpc # "initialize") =>
            rret'[r] = Returned(IF m_useCpuUtilizationGlobal THEN m_cpuUsageGlobal
                                ELSE m_cpuUsage)]_vars

C10_Witness ==
  /\ lastCall.op = "Initialize"
  /\ ~lastCall.created
  /\ lastCall.useGlobalCPUUtilization
  /\ ~m_useCpuUtilizationGlobal
  /\ m_cpuUsage # m_cpuUsageGlobal
  /\ m_cpuUsage # D(0)
  /\ \E r \in Readers :
       /\ rpc[r] = "idle"
       /\ rcall[r].kind = "GetCPUUtilization"
       /\ rsaw[r]
       /\ rret[r] = Returned(m_cpuUsage)

\* the worker is at a call that uses m_pdhQuery or a counter of it
WorkerUsesQuery == wpc \in {"collect", "aggregate"}

\* C11: the destructor sets m_exit, then its join returns only after
\* WorkerThread has returned, and only then the two queries are closed; so
\* the worker never collects or reads on a query that has been closed.
C11_WorkerStopsBeforeClose ==
  /\ [][(cpc = "dtor_join" /\ cpc' = "dtor_close") =>
          (m_exit /\ wpc = "exited" /\ workers = 0 /\ QueriesOpen)]_vars
  /\ [][(objState = "destroying" /\ objState' = "none") =>
          (cpc = "dtor_close" /\ wpc = "none" /\ workers = 0
             /\ m_workerThread = "none")]_vars
  /\ [](WorkerUsesQuery => (objState \in {"alive", "destroying"} /\ QueriesOpen))

C11_Witness ==
  /\ cpc = "dtor_close"
  /\ objState = "destroying"
  /\ m_exit
  /\ ticks > 0
  /\ workers = 0
  /\ wpc = "none"
  /\ QueriesOpen

\* the instances of pid with engine type t, in the order of the sample
OwnInstancesOfType(items, pid, t) ==
  SelectSeq(items, LAMBDA item : OwnedBy(item.szName, pid) /\ EngineTypeOf(item.szName).v = t)

\* the sum of the percentages of the instances of pid with engine type t
OwnEngineSum(items, pid, t) ==
  LET own == OwnInstancesOfType(items, pid, t)
  IN  DSum([i \in 1..Len(own) |-> own[i].value])

\* C12: after a tick whose engine array was read, the published engine map
\* gives for every engine type the sum of the percentages of the instances of
\* the caller's process id with that type (0 when it has none).
C12_EngineMapSumsOwnInstances ==
  (Committed /\ m_hGpuUsage # H_NULL /\ pdhData.gpu.ok) =>
    \A t \in {T3D, TCopy} :
      EngineUtilizationOf(m_gpuEngineUtilization, t)
        = OwnEngineSum(pdhData.gpu.items, m_pid, t)

\* what the public GetGPUEngineUtilization(engineName) returns in this state
EngineUtilizationNow(arg) ==
  LET call == [kind |-> "GetGPUEngineUtilizationOf", arg |-> arg]
  IN  IF EntersObject(call) THEN AccessorValue(call, m_gpuEngineUtilization)
      ELSE Default(call.kind)

\* C13: after a tick whose engine array was read, every engine type in the
\* published map (the names GetGPUEngineNames returns) has an instance of the
\* caller's process id in that tick's sample, and GetGPUEngineUtilization(name)
\* is 0 for a null name and for every name that is not in the map.
C13_AbsentTypesAreDropped ==
  (Committed /\ m_hGpuUsage # H_NULL /\ pdhData.gpu.ok) =>
    /\ \A t \in DOMAIN m_gpuEngineUtilization :
         OwnInstancesOfType(pdhData.gpu.items, m_pid, t) # << >>
    /\ \A arg \in EngineNameArgs :
         (arg.null \/ arg.str \notin DOMAIN m_gpuEngineUtilization) =>
           EngineUtilizationNow(arg) = D(0)

\* the trailing index of a "<processor>,<core>" instance name, or -1 for a
\* name of another form ("0,_Total", "_Total")
CoreIndexOf(name) ==
  LET n1 == LeadingDigits(name)
      rest == After(name, n1 + 1)
      n2 == LeadingDigits(rest)
  IN  IF n1 > 0 /\ Len(name) > n1 /\ name[n1 + 1] = "," /\ n2 > 0 /\ n2 = Len(rest)
      THEN DigitsValue(rest)
      ELSE -1

\* the instances of the sample whose trailing index lies in a vector of
\* length n
CoreInstancesWithin(items, n) ==
  SelectSeq(items, LAMBDA item :
    CoreIndexOf(item.szName) >= 0 /\ CoreIndexOf(item.szName) < n)

\* C14: after a tick whose per-core array was read, the published core
\* vector holds at index i the value, clipped to 100, of the instance whose
\* trailing index is i, and the published global scalar is the mean of the
\* values of those instances, clipped to 100.
C14_CoreVectorByIndex ==
  (Committed /\ m_hCpuUsageGlobal # H_NULL /\ pdhData.cores.ok) =>
    LET cores == CoreInstancesWithin(pdhData.cores.items, Len(m_cpuCoresUsage))
    IN  /\ \A k \in 1..Len(cores) :
             m_cpuCoresUsage[CoreIndexOf(cores[k].szName) + 1]
               = DMin(cores[k].value, D(100))
        /\ m_cpuUsageGlobal =
             DMin(DDivInt(DSum([k \in 1..Len(cores) |-> cores[k].value]),
                          Max(1, Len(cores))), D(100))

\* the worker assigns m_cpuUsage in this step
CommitsProcessScalar == wpc = "m_cpuUsage" /\ wpc' = "m_cpuUsageGlobal"

\* process-specific mode, no name collision in this tick's sample
ReadsProcessSample == ~m_useCpuUtilizationGlobal /\ Len(pdhData.procs) <= 1

\* the instances of this tick's sample the process counter is bound to
BoundInstances ==
  IF m_hCpuUsage = H_NULL THEN {}
  ELSE {i \in 1..Len(pdhData.procs) : pdhData.procs[i].inst = m_hCpuUsage[1]}

\* C15: in process-specific mode, on a tick that reads a fresh sample of the
\* process counter, the new process scalar is half the previous one plus
\* half of (raw value / logical processor count).
C15_ProcessScalarIsSmoothed ==
  [][(CommitsProcessScalar /\ ReadsProcessSample /\ BoundInstances # {}) =>
       \E i \in BoundInstances :
         m_cpuUsage' = DAdd(DHalf(m_cpuUsage),
                            DHalf(DDivInt(pdhData.procs[i].raw,
                                          m_logicalProcessorCount)))]_vars

C15_Witness ==
  /\ wpc = "m_cpuUsageGlobal"
  /\ ~m_useCpuUtilizationGlobal
  /\ Len(pdhData.procs) = 1
  /\ BoundInstances # {}
  /\ ticks = 2
  /\ m_logicalProcessorCount = 4
  /\ pdhData.procs[1].raw = D(20)
  /\ m_cpuUsage = <<15, 4>>

\* process-specific mode, more than one candidate instance in this tick's
\* sample
NameCollision == ~m_useCpuUtilizationGlobal /\ Len(pdhData.procs) > 1

\* C16: in process-specific mode, on a tick whose sample has more than one
\* candidate instance, the worker binds the process counter to the instance
\* of its own process id and reads no sample: the process scalar it commits
\* is the one published before, while the other metrics are those of the
\* tick's sample.
C16_CollisionKeepsProcessScalar ==
  /\ [][(wpc = "aggregate" /\ wpc' = "lock" /\ NameCollision) =>
          \E i \in 1..Len(pdhData.procs) :
            /\ pdhData.procs[i].pid = m_pid
            /\ m_hCpuUsage' = <<pdhData.procs[i].inst, "% Processor Time">>]_vars
  /\ [][(CommitsProcessScalar /\ NameCollision) => m_cpuUsage' = m_cpuUsage]_vars
  /\ [](Committed => StoreIsOfSample)

C16_Witness ==
  /\ Committed
  /\ NameCollision
  /\ ticks = 2
  /\ m_cpuUsage # D(0)
  /\ m_hCpuUsage = <<"Process(app#1)", "% Processor Time">>
  /\ m_gpuMemory.dedicated # U64(0)

\* every member of the store has the value the constructor and
\* SimplePerfCounter::Initialize gave it: the core vector is resized to the
\* number of logical processors, which stays 0 when a query did not open
StoreIsInitial ==
  /\ m_gpuEngineUtilization = << >>
  /\ m_gpuMemory = [dedicated |-> U64(0), shared |-> U64(0)]
  /\ m_cpuUsage = D(0)
  /\ m_cpuUsageGlobal = D(0)
  /\ m_cpuCoresUsage = [i \in 1..m_logicalProcessorCount |-> D(0)]

\* the worker is inside its critical section
InCriticalSection == m_mutex = WORKER /\ wpc \in {CommitOrder[i] : i \in 1..6}

\* C17: the worker is the only writer of the store: its members change only
\* in steps the worker takes inside its critical section (and when the
\* session object is constructed or destroyed); when the worker releases
\* the lock every member holds what this iteration computed; so whenever the
\* worker does not hold the lock the store is that of one tick or the
\* initial one; and no step of an accessor changes a member of the store.
C17_StoreCommittedInOneCriticalSection ==
  /\ [][(storeVars' # storeVars) =>
          \/ InCriticalSection /\ wpc' = NextCommit(wpc)
          \/ objState' # objState]_vars
  /\ [][(m_mutex = WORKER /\ m_mutex' # WORKER) =>
          /\ m_cpuUsageGlobal' = wl.cpuUsageGlobal
          /\ m_gpuEngineUtilization' = wl.gpuEngineUtilization
          /\ m_gpuMemory' = [dedicated |-> wl.gpuDedicatedMem,
                             shared |-> wl.gpuSharedMem]
          /\ m_cpuCoresUsage' = [i \in 1..Len(wl.cpuCoresUsage) |->
                                   DMin(wl.cpuCoresUsage[i], D(100))]
          /\ wl.pdhStatus = ERROR_SUCCESS]_vars
  /\ []((m_mutex # WORKER /\ objState = "alive") =>
          (StoreIsInitial \/ StoreIsOfSample))
  /\ [][(rpc' # rpc /\ objState' = objState) => UNCHANGED storeVars]_vars

\* the destructor of a session with a worker has set m_exit
ExitRequested == objState = "destroying" /\ m_exit /\ m_workerThread = "joinable"

\* C18: once the destructor has set m_exit, the worker does not enter its
\* loop body again (it finishes the iteration it is in, with at most one
\* further commit, whether its collection succeeds or fails), it returns,
\* join returns and the session is destroyed.
C18_ShutdownTerminates ==
  /\ [][(m_exit /\ wpc' = "collect") => wpc = "collect"]_vars
  /\ [][(m_exit /\ wpc \in {"sleep", "loop", "exited", "none"}
                /\ objState' = objState) => UNCHANGED storeVars]_vars
  /\ (ExitRequested ~> (wpc = "exited" /\ workers = 0))
  /\ (ExitRequested ~> (objState = "none" /\ workers = 0 /\ cpc = "idle"))

C18_Witness ==
  /\ ExitRequested
  /\ cpc = "dtor_join"
  /\ wpc = "exited"
  /\ workers = 0
  /\ ticks > 0

\* the positions of the worker inside the body of its loop
InsideIteration ==
  {"collect", "aggregate", "lock", "sleep"} \cup {CommitOrder[i] : i \in 1..6}

\* C19: the worker comes back to the head of its loop from an iteration
\* only through sleep_for, so two consecutive collection attempts are one
\* sleep apart, whether the earlier one succeeded or failed.
C19_SleepBetweenAttempts ==
  [][(wpc \in InsideIteration /\ wpc' = "loop") => wpc = "sleep"]_vars

\* C20: when an Initialize call has returned true, a worker thread of the
\* session is running and both queries of the session are open.
C20_SuccessMeansActiveSession ==
  (cpc = "idle" /\ lastCall.op = "Initialize" /\ lastCall.ret) =>
    (workers = 1 /\ m_workerThread = "joinable" /\ QueriesOpen)

\* C21: an accessor is inside the session object (waiting for m_mutex or
\* reading a member) only while that object is alive, never while the
\* destructor runs or after the object has been freed.
C21_AccessorsNeverUseDestroyedSession ==
  \A r \in Readers :
    /\ rpc[r] \in {"lock", "read"} => objState = "alive"
    /\ rpc[r] # "dangling"

\* the candidates of a list that report this process id
OwnCandidates(procs, pid) == {i \in 1..Len(procs) : procs[i].pid = pid}

\* the processor-time path of the first of them in enumeration order
FirstOwnPath(procs, pid) ==
  LET own == OwnCandidates(procs, pid)
  IN  <<procs[CHOOSE i \in own : \A j \in own : i <= j].inst, "% Processor Time">>

\* C22: GetPathMatched gives the processor-time path of the first candidate
\* whose ID Process equals the pid, and the empty path when there is none;
\* when there is none SetupCounterCpuUsage registers no process counter and
\* the re-resolution of the worker leaves m_hCpuUsage as it is.
C22_ResolverFirstMatchOrEmpty ==
  /\ [](\A procs \in ResolverProcLists(envPid) :
          /\ GetPathMatched(GetProcessPathList(procs), procs, envPid) =
               IF OwnCandidates(procs, envPid) # {}
               THEN FirstOwnPath(procs, envPid) ELSE << >>
          /\ SetupProcessCounter(procs, envPid, TRUE) =
               IF OwnCandidates(procs, envPid) # {}
               THEN FirstOwnPath(procs, envPid) ELSE H_NULL)
  /\ [][(wpc = "aggregate" /\ wpc' = "lock" /\ NameCollision) =>
          m_hCpuUsage' = IF OwnCandidates(pdhData.procs, m_pid) # {}
                         THEN FirstOwnPath(pdhData.procs, m_pid)
                         ELSE m_hCpuUsage]_vars

====
